---------------------------- MODULE Spec2Model ----------------------------
(***************************************************************************)
(* A model of the training monitors (torchreid/integration/nous/           *)
(* monitors.py) and of the GlobalMe dataset adapter (torchreid/data/       *)
(* datasets/image/globalme.py).                                            *)
(*                                                                         *)
(* The components are independent objects.  Each gets a specification of   *)
(* its own (SpecStop, SpecMetrics, SpecDefault, SpecPerf, SpecRun,         *)
(* SpecData) over the one set of variables; a specification leaves the     *)
(* variables of the other components at their constructed values.          *)
(*                                                                         *)
(* Variables ending in _calls, and pm_last, pm_epoch_ends, pm_prev,        *)
(* ds_scanned, are history variables: they record which calls were made,   *)
(* so that the properties can speak about them.  They are never read by    *)
(* the modelled code.                                                      *)
(***************************************************************************)
EXTENDS Integers, Sequences, FiniteSets, TLC

VARIABLES
    \* StopCallback
    stop_flag, sc_ret, sc_calls,
    \* MetricsMonitor
    tb, writers, mm_calls,
    \* DefaultMetricsMonitor
    metrics_dict, dm_ret, dm_calls,
    \* PerformanceMonitor
    total_epochs, num_train_steps, num_validation_steps,
    train_steps_passed, val_steps_passed, train_epochs_passed,
    granularity, start_epoch_time, start_batch_time,
    avg_epoch_time, avg_batch_time, avg_val_batch_time,
    \* the wall clock, the last hook called, on_train_epoch_end calls since init
    now, pm_last, pm_epoch_ends,
    \* the training loop driving the monitor: its position and loop counters
    run_pc, run_epoch, run_batch,
    \* GlobalMe: the file system, the constructor's flag, position, fields,
    \* error raised and directories scanned so far
    fs, market1501_500k, ds_pc, data_dir, train, query, gallery,
    ds_error, ds_scanned

scVars == <<stop_flag, sc_ret, sc_calls>>
mmVars == <<tb, writers, mm_calls>>
dmVars == <<metrics_dict, dm_ret, dm_calls>>

pmVars == <<total_epochs, num_train_steps, num_validation_steps,
            train_steps_passed, val_steps_passed, train_epochs_passed,
            granularity, start_epoch_time, start_batch_time,
            avg_epoch_time, avg_batch_time, avg_val_batch_time,
            now, pm_last, pm_epoch_ends>>
runVars == <<run_pc, run_epoch, run_batch>>

dsVars == <<fs, market1501_500k, ds_pc, data_dir, train, query, gallery,
            ds_error, ds_scanned>>

vars == <<scVars, mmVars, dmVars, pmVars, runVars, dsVars>>

\* The longest call history explored for the three small monitors.
MaxCalls == 4

Last(s) == s[Len(s)]

(***************************************************************************)
(* StopCallback                                                            *)
(***************************************************************************)

StopCallback_init ==
    /\ stop_flag = FALSE
    /\ sc_ret = [status |-> "none", value |-> FALSE]
    /\ sc_calls = <<>>

\* A stop() that fails to latch the flag.
StopCallback_stop_mutant ==
    /\ Len(sc_calls) < MaxCalls
    /\ stop_flag' = stop_flag
    /\ sc_calls' = Append(sc_calls, "stop")
    /\ UNCHANGED sc_ret

StopCallback_stop ==
    /\ Len(sc_calls) < MaxCalls
    /\ stop_flag' = TRUE
    /\ sc_calls' = Append(sc_calls, "stop")
    /\ UNCHANGED sc_ret

StopCallback_check_stop ==
    /\ Len(sc_calls) < MaxCalls
    /\ sc_ret' = [status |-> "returned", value |-> stop_flag]
    /\ sc_calls' = Append(sc_calls, "check_stop")
    /\ UNCHANGED stop_flag

StopCallback_reset ==
    /\ Len(sc_calls) < MaxCalls
    /\ stop_flag' = FALSE
    /\ sc_calls' = Append(sc_calls, "reset")
    /\ UNCHANGED sc_ret

(***************************************************************************)
(* MetricsMonitor.  The dashboard writer (SummaryWriter) is an outside     *)
(* object; writers is the sequence of the writers constructed so far,      *)
(* each with whether it is open, how often it was closed and the scalars   *)
(* it received.  tb = 0 is None, tb = i is the i-th writer.                *)
(***************************************************************************)

Captures == {"loss", "acc"}
Values == {1, 2}
Timestamps == {0, 1}

MetricsMonitor_init ==
    /\ tb = 0
    /\ writers = <<>>
    /\ mm_calls = <<>>

SummaryWriter == [open |-> TRUE, closes |-> 0, log |-> <<>>]

\* add_scalar on a writer object
Writer_add_scalar(w, capture, value, timestamp) ==
    [w EXCEPT !.log = Append(@, <<capture, value, timestamp>>)]

\* close on a writer object
Writer_close(w) == [w EXCEPT !.open = FALSE, !.closes = @ + 1]

\* The writer add_scalar uses: the current one, or a new one when tb is None.
\* A monitor that opens a writer for every call.
MetricsMonitor_lazy_open_mutant ==
    [ws |-> Append(writers, SummaryWriter), t |-> Len(writers) + 1]

MetricsMonitor_lazy_open ==
    IF tb = 0
    THEN [ws |-> Append(writers, SummaryWriter), t |-> Len(writers) + 1]
    ELSE [ws |-> writers, t |-> tb]

MetricsMonitor_add_scalar(capture, value, timestamp) ==
    /\ Len(mm_calls) < MaxCalls
    /\ LET o == MetricsMonitor_lazy_open IN
         /\ tb' = o.t
         /\ writers' = [o.ws EXCEPT
                ![o.t] = Writer_add_scalar(@, capture, value, timestamp)]
    /\ mm_calls' = Append(mm_calls,
            [op |-> "add_scalar", args |-> <<capture, value, timestamp>>])

MetricsMonitor_close ==
    /\ Len(mm_calls) < MaxCalls
    /\ IF tb # 0
       THEN /\ writers' = [writers EXCEPT ![tb] = Writer_close(@)]
            /\ tb' = 0
       ELSE UNCHANGED <<tb, writers>>
    /\ mm_calls' = Append(mm_calls, [op |-> "close", args |-> <<>>])

(***************************************************************************)
(* DefaultMetricsMonitor.  metrics_dict is a function whose domain is the  *)
(* set of keys of the dictionary.                                          *)
(***************************************************************************)

DefaultMetricsMonitor_init ==
    /\ metrics_dict = [c \in {} |-> <<>>]
    /\ dm_ret = [status |-> "none", value |-> <<>>]
    /\ dm_calls = <<>>

\* An add_scalar that starts a fresh list on every call.
DefaultMetricsMonitor_store_mutant(capture, value) ==
    [c \in DOMAIN metrics_dict \cup {capture} |->
        IF c = capture THEN <<value>> ELSE metrics_dict[c]]

DefaultMetricsMonitor_store(capture, value) ==
    IF capture \in DOMAIN metrics_dict
    THEN [metrics_dict EXCEPT ![capture] = Append(@, value)]
    ELSE [c \in DOMAIN metrics_dict \cup {capture} |->
            IF c = capture THEN <<value>> ELSE metrics_dict[c]]

DefaultMetricsMonitor_add_scalar(capture, value, timestamp) ==
    /\ Len(dm_calls) < MaxCalls
    /\ metrics_dict' = DefaultMetricsMonitor_store(capture, value)
    /\ dm_calls' = Append(dm_calls,
            [op |-> "add_scalar", args |-> <<capture, value, timestamp>>])
    /\ UNCHANGED dm_ret

\* metrics_dict[capture] raises KeyError for a key that is not there.
DefaultMetricsMonitor_get_metric_values(capture) ==
    /\ Len(dm_calls) < MaxCalls
    /\ dm_ret' = IF capture \in DOMAIN metrics_dict
                 THEN [status |-> "returned", value |-> metrics_dict[capture]]
                 ELSE [status |-> "KeyError", value |-> <<>>]
    /\ dm_calls' = Append(dm_calls,
            [op |-> "get_metric_values", args |-> <<capture>>])
    /\ UNCHANGED metrics_dict

DefaultMetricsMonitor_close ==
    /\ Len(dm_calls) < MaxCalls
    /\ dm_calls' = Append(dm_calls, [op |-> "close", args |-> <<>>])
    /\ UNCHANGED <<metrics_dict, dm_ret>>

(***************************************************************************)
(* PerformanceMonitor.                                                     *)
(*                                                                         *)
(* The monitor computes with Python floats.  Here a number is an exact     *)
(* fraction [n, d] in lowest terms with d > 0, and wall-clock readings are *)
(* small integers.  For the totals and counters within the bounds below    *)
(* (and well beyond: totals up to 12, counters up to 22) the double        *)
(* results of the two progress expressions truncate to the same integers   *)
(* as the exact fractions; the first difference is 23/5*100.               *)
(***************************************************************************)

\* The totals init is called with.
TotalEpochs == {1, 2}
NumTrainSteps == {2}
NumValidationSteps == {1, 2}
\* The totals of the well-formed training runs.
RunTotalEpochs == {1, 2, 3}
RunNumTrainSteps == {1, 2, 3}
\* Caps on the counters when the hooks are called in any order.
MaxStepsPassed == 2
MaxEpochsPassed == 2
\* The last wall-clock reading; the first is 1.
MaxClock == 1

RECURSIVE GCD(_, _)
GCD(a, b) == IF b = 0 THEN a ELSE GCD(b, a % b)

Abs(x) == IF x < 0 THEN -x ELSE x

Frac(n, d) ==
    LET g == GCD(Abs(n), Abs(d))
        sgn == IF d < 0 THEN -1 ELSE 1
    IN  IF n = 0 THEN [n |-> 0, d |-> 1]
        ELSE [n |-> sgn * (n \div g), d |-> sgn * (d \div g)]

FromInt(k) == [n |-> k, d |-> 1]
FAdd(x, y) == Frac(x.n * y.d + y.n * x.d, x.d * y.d)
FMul(x, y) == Frac(x.n * y.n, x.d * y.d)
FDiv(x, y) == Frac(x.n * y.d, x.d * y.n)

\* Python's int() of a float: truncation toward zero.
PyInt(x) == IF x.n >= 0 THEN x.n \div x.d ELSE -((-x.n) \div x.d)

\* avg' = (avg * (n - 1) + sample) / n
RunningAverage(avg, n, sample) ==
    FDiv(FAdd(FMul(avg, FromInt(n - 1)), FromInt(sample)), FromInt(n))

\* A read of time.time(): some reading not before the last one.
ClockRead(t) == t \in now..MaxClock /\ now' = t

PerformanceMonitor_init(te, nts, nvs) ==
    /\ total_epochs' = te
    /\ num_train_steps' = nts
    /\ num_validation_steps' = nvs
    /\ train_steps_passed' = 0
    /\ val_steps_passed' = 0
    /\ train_epochs_passed' = 0
    /\ granularity' = FDiv(FromInt(1), FromInt(te))
    /\ start_epoch_time' = 0
    /\ start_batch_time' = 0
    /\ avg_epoch_time' = FromInt(0)
    /\ avg_batch_time' = FromInt(0)
    /\ avg_val_batch_time' = FromInt(0)
    /\ pm_last' = "init"
    /\ pm_epoch_ends' = 0
    /\ UNCHANGED now

PerformanceMonitor_on_train_batch_begin ==
    /\ \E t \in now..MaxClock : ClockRead(t) /\ start_batch_time' = t
    /\ pm_last' = "on_train_batch_begin"
    /\ UNCHANGED <<total_epochs, num_train_steps, num_validation_steps,
                   train_steps_passed, val_steps_passed, train_epochs_passed,
                   granularity, start_epoch_time,
                   avg_epoch_time, avg_batch_time, avg_val_batch_time,
                   pm_epoch_ends>>

PerformanceMonitor_on_train_batch_end ==
    /\ train_steps_passed' = train_steps_passed + 1
    /\ \E t \in now..MaxClock :
          /\ ClockRead(t)
          /\ avg_batch_time' = RunningAverage(avg_batch_time,
                                    train_steps_passed', t - start_batch_time)
    /\ pm_last' = "on_train_batch_end"
    /\ UNCHANGED <<total_epochs, num_train_steps, num_validation_steps,
                   val_steps_passed, train_epochs_passed,
                   granularity, start_epoch_time, start_batch_time,
                   avg_epoch_time, avg_val_batch_time, pm_epoch_ends>>

PerformanceMonitor_on_val_batch_begin ==
    /\ \E t \in now..MaxClock : ClockRead(t) /\ start_batch_time' = t
    /\ pm_last' = "on_val_batch_begin"
    /\ UNCHANGED <<total_epochs, num_train_steps, num_validation_steps,
                   train_steps_passed, val_steps_passed, train_epochs_passed,
                   granularity, start_epoch_time,
                   avg_epoch_time, avg_batch_time, avg_val_batch_time,
                   pm_epoch_ends>>

PerformanceMonitor_on_val_batch_end ==
    /\ val_steps_passed' = val_steps_passed + 1
    /\ \E t \in now..MaxClock :
          /\ ClockRead(t)
          /\ avg_val_batch_time' = RunningAverage(avg_val_batch_time,
                                    val_steps_passed', t - start_batch_time)
    /\ pm_last' = "on_val_batch_end"
    /\ UNCHANGED <<total_epochs, num_train_steps, num_validation_steps,
                   train_steps_passed, train_epochs_passed,
                   granularity, start_epoch_time, start_batch_time,
                   avg_epoch_time, avg_batch_time, pm_epoch_ends>>

\* An on_train_begin that also starts the epoch count again.
PerformanceMonitor_on_train_begin_mutant ==
    /\ train_steps_passed' = 0
    /\ val_steps_passed' = 0
    /\ train_epochs_passed' = 0
    /\ pm_last' = "on_train_begin"
    /\ UNCHANGED <<total_epochs, num_train_steps, num_validation_steps,
                   granularity, start_epoch_time, start_batch_time,
                   avg_epoch_time, avg_batch_time, avg_val_batch_time,
                   now, pm_epoch_ends>>

PerformanceMonitor_on_train_begin ==
    /\ train_steps_passed' = 0
    /\ val_steps_passed' = 0
    /\ pm_last' = "on_train_begin"
    /\ UNCHANGED <<total_epochs, num_train_steps, num_validation_steps,
                   train_epochs_passed,
                   granularity, start_epoch_time, start_batch_time,
                   avg_epoch_time, avg_batch_time, avg_val_batch_time,
                   now, pm_epoch_ends>>

PerformanceMonitor_on_train_end ==
    /\ pm_last' = "on_train_end"
    /\ UNCHANGED <<total_epochs, num_train_steps, num_validation_steps,
                   train_steps_passed, val_steps_passed, train_epochs_passed,
                   granularity, start_epoch_time, start_batch_time,
                   avg_epoch_time, avg_batch_time, avg_val_batch_time,
                   now, pm_epoch_ends>>

PerformanceMonitor_on_train_epoch_begin ==
    /\ \E t \in now..MaxClock : ClockRead(t) /\ start_epoch_time' = t
    /\ pm_last' = "on_train_epoch_begin"
    /\ UNCHANGED <<total_epochs, num_train_steps, num_validation_steps,
                   train_steps_passed, val_steps_passed, train_epochs_passed,
                   granularity, start_batch_time,
                   avg_epoch_time, avg_batch_time, avg_val_batch_time,
                   pm_epoch_ends>>

PerformanceMonitor_on_train_epoch_end ==
    /\ val_steps_passed' = 0
    /\ train_epochs_passed' = train_epochs_passed + 1
    /\ \E t \in now..MaxClock :
          /\ ClockRead(t)
          /\ avg_epoch_time' = RunningAverage(avg_epoch_time,
                                    train_epochs_passed', t - start_epoch_time)
    /\ pm_last' = "on_train_epoch_end"
    /\ pm_epoch_ends' = pm_epoch_ends + 1
    /\ UNCHANGED <<total_epochs, num_train_steps, num_validation_steps,
                   train_steps_passed,
                   granularity, start_epoch_time, start_batch_time,
                   avg_batch_time, avg_val_batch_time>>

get_training_progress ==
    PyInt(FMul(FDiv(FromInt(train_epochs_passed), FromInt(total_epochs)),
               FromInt(100)))
    + PyInt(FMul(FDiv(FMul(granularity,
                           FromInt(train_steps_passed % num_train_steps)),
                      FromInt(num_train_steps)),
                 FromInt(100)))

get_val_progress ==
    PyInt(FMul(FDiv(FromInt(val_steps_passed), FromInt(num_validation_steps)),
               FromInt(100)))

(***************************************************************************)
(* GlobalMe.  A path or file name is a sequence of characters.  The file   *)
(* system fs is a function from the paths of the directories that exist    *)
(* to their listings: the file names in the order the system lists them.   *)
(***************************************************************************)

\* The most files in one directory.
MaxFiles == 2

Root == <<"/", "r">>
dataset_dir_name == <<"g", "l", "o", "b", "a", "l", "m", "e", "-", "r", "e", "i", "d">>
dataset_subdir == <<"G", "l", "o", "b", "a", "l", "M", "e", "-", "r", "e", "I", "D">>
bounding_box_train == <<"b", "o", "u", "n", "d", "i", "n", "g", "_", "b", "o", "x", "_", "t", "r", "a", "i", "n">>
query_name == <<"q", "u", "e", "r", "y">>
bounding_box_test == <<"b", "o", "u", "n", "d", "i", "n", "g", "_", "b", "o", "x", "_", "t", "e", "s", "t">>
images_name == <<"i", "m", "a", "g", "e", "s">>

\* osp.join of a directory and a name
Join(dir, name) == dir \o <<"/">> \o name

\* self.dataset_dir after line 39
dataset_dir == Join(Root, dataset_dir_name)

Digits == {"0", "1", "2", "3", "4", "5", "6", "7", "8", "9"}

DigitValue(c) ==
    CASE c = "0" -> 0 [] c = "1" -> 1 [] c = "2" -> 2 [] c = "3" -> 3
      [] c = "4" -> 4 [] c = "5" -> 5 [] c = "6" -> 6 [] c = "7" -> 7
      [] c = "8" -> 8 [] c = "9" -> 9

\* The character class [-\d]
IsPidChar(c) == c = "-" \/ c \in Digits

\* glob's '*.jpg': the name ends in .jpg and is not a hidden file.
IsJpg(name) ==
    /\ Len(name) >= 4
    /\ SubSeq(name, Len(name) - 3, Len(name)) = <<".", "j", "p", "g">>
    /\ name[1] # "."

\* glob.glob(osp.join(dir_path, '*.jpg')): nothing for a missing directory.
Glob(dir_path) ==
    IF dir_path \in DOMAIN fs
    THEN LET names == SelectSeq(fs[dir_path], IsJpg)
         IN  [i \in 1..Len(names) |-> Join(dir_path, names[i])]
    ELSE <<>>

\* Where the run of [-\d] characters that starts at i ends (one past it).
RunEnd(path, i) ==
    CHOOSE k \in i..(Len(path) + 1) :
        /\ \A j \in i..(k - 1) : IsPidChar(path[j])
        /\ k = Len(path) + 1 \/ ~IsPidChar(path[k])

\* _c(\d) at position k
TailMatchesAt(path, k) ==
    /\ k + 2 <= Len(path)
    /\ path[k] = "_" /\ path[k + 1] = "c" /\ path[k + 2] \in Digits

\* ([-\d]+)_c(\d) matches at i: the greedy run, then _c and a digit.  A
\* shorter run is followed by a character of the run, never by _.
MatchesAt(path, i) ==
    IsPidChar(path[i]) /\ TailMatchesAt(path, RunEnd(path, i))

Min(S) == CHOOSE x \in S : \A y \in S : x <= y

\* The two groups of the match whose run is path[i..k-1].
MatchGroups(path, i, k) ==
    [found |-> TRUE, groups |-> <<SubSeq(path, i, k - 1), <<path[k + 2]>>>>]

\* The leftmost of the matches that start in starts.
LeftmostMatch(path, starts) ==
    IF starts = {} THEN [found |-> FALSE, groups |-> <<>>]
    ELSE MatchGroups(path, Min(starts), RunEnd(path, Min(starts)))

\* pattern.search(img_path): the leftmost match and its two groups.
PatternSearch(path) ==
    LeftmostMatch(path, {i \in 1..Len(path) : MatchesAt(path, i)})

RECURSIVE DecimalValue(_)
DecimalValue(ds) ==
    IF ds = <<>> THEN 0
    ELSE 10 * DecimalValue(SubSeq(ds, 1, Len(ds) - 1)) + DigitValue(ds[Len(ds)])

AllDigits(ds) == ds # <<>> /\ \A i \in 1..Len(ds) : ds[i] \in Digits

\* int(text) for a text of digits and minus signs: a ValueError unless it is
\* digits with at most one minus sign in front.
PyIntOfText(text) ==
    IF AllDigits(text) THEN [ok |-> TRUE, value |-> DecimalValue(text)]
    ELSE IF text[1] = "-" /\ AllDigits(Tail(text))
    THEN [ok |-> TRUE, value |-> -DecimalValue(Tail(text))]
    ELSE [ok |-> FALSE, value |-> 0]

\* pid, camid = map(int, groups): the second group is one digit.
IntsOfGroups(pid, camid) ==
    IF ~pid.ok THEN [raised |-> "ValueError", pid |-> 0, camid |-> 0]
    ELSE [raised |-> "none", pid |-> pid.value, camid |-> camid.value]

\* .groups() of no match raises AttributeError.
IntsOfMatch(m) ==
    IF ~m.found THEN [raised |-> "AttributeError", pid |-> 0, camid |-> 0]
    ELSE IntsOfGroups(PyIntOfText(m.groups[1]), PyIntOfText(m.groups[2]))

\* map(int, pattern.search(img_path).groups()): the pair, or what is raised.
ParsePath(path) == IntsOfMatch(PatternSearch(path))

\* The first loop of process_dir: the identities other than -1.
PidContainer(img_paths) ==
    {ParsePath(img_paths[i]).pid : i \in 1..Len(img_paths)} \ {-1}

\* enumerate(pid_container): the set is iterated in an order of its own, so
\* any numbering of its elements from 0 is possible.
\* A numbering that starts at 1.
Enumerations_mutant(pids) ==
    {f \in [pids -> 1..Cardinality(pids)] :
        \A a, b \in pids : a # b => f[a] # f[b]}

Enumerations(pids) ==
    {f \in [pids -> 0..(Cardinality(pids) - 1)] :
        \A a, b \in pids : a # b => f[a] # f[b]}

\* One pass of the second loop: what a path adds to data.
\* A pass that drops the junk images only when it relabels.
Sample_mutant(img_path, parsed, relabel, pid2label) ==
    IF parsed.pid = -1 /\ relabel THEN <<>>
    ELSE <<[path |-> img_path,
            pid |-> IF relabel THEN pid2label[parsed.pid] ELSE parsed.pid,
            camid |-> parsed.camid]>>

Sample(img_path, parsed, relabel, pid2label) ==
    IF parsed.pid = -1 THEN <<>>
    ELSE <<[path |-> img_path,
            pid |-> IF relabel THEN pid2label[parsed.pid] ELSE parsed.pid,
            camid |-> parsed.camid]>>

\* The second loop of process_dir, on paths that all parse.
RECURSIVE CollectData(_, _, _)
CollectData(img_paths, relabel, pid2label) ==
    IF img_paths = <<>> THEN <<>>
    ELSE Sample(img_paths[1], ParsePath(img_paths[1]), relabel, pid2label)
            \o CollectData(Tail(img_paths), relabel, pid2label)

\* What the path at the first of the indices bad raises.
RaisedAtFirst(img_paths, bad) ==
    IF bad = {} THEN "none" ELSE ParsePath(img_paths[Min(bad)]).raised

\* What the first loop raises: the error of the first path that does not
\* parse, "none" when all do.
FirstRaised(img_paths) ==
    RaisedAtFirst(img_paths, {i \in 1..Len(img_paths) :
                                ParsePath(img_paths[i]).raised # "none"})

\* The two loops of process_dir on the paths glob gave.
ProcessPaths(img_paths, raised, relabel, pid2label) ==
    IF raised # "none" THEN [raised |-> raised, data |-> <<>>]
    ELSE [raised |-> "none",
          data |-> CollectData(img_paths, relabel, pid2label)]

\* process_dir(dir_path, relabel): the data, or what is raised.  pid2label
\* is the numbering the dictionary comprehension of line 86 arrives at.
process_dir(dir_path, relabel, pid2label) ==
    ProcessPaths(Glob(dir_path), FirstRaised(Glob(dir_path)), relabel,
                 pid2label)

\* The numberings process_dir may arrive at in a directory.
Pid2Labels(dir_path) == Enumerations(PidContainer(Glob(dir_path)))

\* A process_dir call of the constructor: an exception ends the
\* constructor; otherwise the data becomes the split, or is added to the
\* gallery by line 71.
Assign(result, split, next_pc) ==
    /\ IF result.raised # "none"
       THEN /\ ds_pc' = "error"
            /\ ds_error' = [kind |-> result.raised, path |-> <<>>]
            /\ UNCHANGED <<train, query, gallery>>
       ELSE /\ ds_pc' = next_pc
            /\ train' = IF split = "train" THEN result.data ELSE train
            /\ query' = IF split = "query" THEN result.data ELSE query
            /\ gallery' = IF split = "gallery" THEN result.data
                          ELSE IF split = "extra_gallery"
                          THEN gallery \o result.data
                          ELSE gallery
            /\ UNCHANGED ds_error

ProcessDirStep(dir_path, relabel, split, next_pc) ==
    /\ \E pid2label \in Pid2Labels(dir_path) :
          Assign(process_dir(dir_path, relabel, pid2label), split, next_pc)
    /\ ds_scanned' = Append(ds_scanned, dir_path)
    /\ UNCHANGED <<fs, market1501_500k, data_dir>>

train_dir == Join(data_dir, bounding_box_train)
query_dir == Join(data_dir, query_name)
gallery_dir == Join(data_dir, bounding_box_test)
extra_gallery_dir == Join(data_dir, images_name)

\* Lines 41-49: the nested layout when its directory is there, else the flat.
ResolveDataDir ==
    IF Join(dataset_dir, dataset_subdir) \in DOMAIN fs
    THEN Join(dataset_dir, dataset_subdir)
    ELSE dataset_dir

\* A list that always holds the extra gallery directory.
required_files_mutant(dd) ==
    <<dd, Join(dd, bounding_box_train), Join(dd, query_name),
      Join(dd, bounding_box_test), Join(dd, images_name)>>

required_files(dd) ==
    <<dd, Join(dd, bounding_box_train), Join(dd, query_name),
      Join(dd, bounding_box_test)>>
    \o (IF market1501_500k THEN <<Join(dd, images_name)>> ELSE <<>>)

\* ImageDataset.check_before_run: the first path of the list that does not
\* exist, <<>> when all exist.
FirstOf(paths, absent) == IF absent = {} THEN <<>> ELSE paths[Min(absent)]

check_before_run(paths) ==
    FirstOf(paths, {i \in 1..Len(paths) : paths[i] \notin DOMAIN fs})

\* Line 65: a missing path ends the constructor.
Checked(missing) ==
    IF missing # <<>>
    THEN /\ ds_pc' = "error"
         /\ ds_error' = [kind |-> "missing path", path |-> missing]
    ELSE /\ ds_pc' = "train"
         /\ UNCHANGED ds_error

\* Lines 38-65 of the constructor
GlobalMe_check ==
    /\ ds_pc = "start"
    /\ data_dir' = ResolveDataDir
    /\ Checked(check_before_run(required_files(ResolveDataDir)))
    /\ UNCHANGED <<fs, market1501_500k, train, query, gallery, ds_scanned>>

\* Line 67
GlobalMe_train ==
    /\ ds_pc = "train"
    /\ ProcessDirStep(train_dir, TRUE, "train", "query")

\* Line 68
GlobalMe_query ==
    /\ ds_pc = "query"
    /\ ProcessDirStep(query_dir, FALSE, "query", "gallery")

\* Line 69
GlobalMe_gallery ==
    /\ ds_pc = "gallery"
    /\ ProcessDirStep(gallery_dir, FALSE, "gallery",
                      IF market1501_500k THEN "extra_gallery" ELSE "super")

\* Lines 70-71
GlobalMe_extra_gallery ==
    /\ ds_pc = "extra_gallery"
    /\ ProcessDirStep(extra_gallery_dir, FALSE, "extra_gallery", "super")

\* Line 73: the three splits go to ImageDataset.
GlobalMe_super_init ==
    /\ ds_pc = "super"
    /\ ds_pc' = "done"
    /\ UNCHANGED <<fs, market1501_500k, data_dir, train, query, gallery,
                   ds_error, ds_scanned>>

(***************************************************************************)
(* Specifications                                                          *)
(***************************************************************************)

\* The monitor as init(1, 1, 1) leaves it, before the clock has advanced.
PerformanceMonitor_idle ==
    /\ total_epochs = 1 /\ num_train_steps = 1 /\ num_validation_steps = 1
    /\ train_steps_passed = 0 /\ val_steps_passed = 0
    /\ train_epochs_passed = 0
    /\ granularity = FromInt(1)
    /\ start_epoch_time = 0 /\ start_batch_time = 0
    /\ avg_epoch_time = FromInt(0) /\ avg_batch_time = FromInt(0)
    /\ avg_val_batch_time = FromInt(0)
    /\ now = 1 /\ pm_last = "init" /\ pm_epoch_ends = 0

Run_idle == run_pc = "idle" /\ run_epoch = 0 /\ run_batch = 0

\* No dataset under construction, on an empty file system.
GlobalMe_idle ==
    /\ fs = [d \in {} |-> <<>>]
    /\ market1501_500k = FALSE
    /\ ds_pc = "idle"
    /\ data_dir = <<>>
    /\ train = <<>> /\ query = <<>> /\ gallery = <<>>
    /\ ds_error = [kind |-> "none", path |-> <<>>]
    /\ ds_scanned = <<>>

InitStop ==
    /\ StopCallback_init /\ MetricsMonitor_init /\ DefaultMetricsMonitor_init
    /\ PerformanceMonitor_idle /\ Run_idle /\ GlobalMe_idle

NextStop ==
    \/ StopCallback_stop /\ UNCHANGED <<mmVars, dmVars, pmVars, runVars, dsVars>>
    \/ StopCallback_check_stop /\ UNCHANGED <<mmVars, dmVars, pmVars, runVars, dsVars>>
    \/ StopCallback_reset /\ UNCHANGED <<mmVars, dmVars, pmVars, runVars, dsVars>>

SpecStop == InitStop /\ [][NextStop]_vars

InitMetrics == InitStop

NextMetrics ==
    \/ (\E c \in Captures, v \in Values, t \in Timestamps :
            MetricsMonitor_add_scalar(c, v, t))
          /\ UNCHANGED <<scVars, dmVars, pmVars, runVars, dsVars>>
    \/ MetricsMonitor_close /\ UNCHANGED <<scVars, dmVars, pmVars, runVars, dsVars>>

SpecMetrics == InitMetrics /\ [][NextMetrics]_vars

InitDefault == InitStop

NextDefault ==
    \/ (\E c \in Captures, v \in Values, t \in Timestamps :
            DefaultMetricsMonitor_add_scalar(c, v, t))
          /\ UNCHANGED <<scVars, mmVars, pmVars, runVars, dsVars>>
    \/ (\E c \in Captures : DefaultMetricsMonitor_get_metric_values(c)) /\ UNCHANGED <<scVars, mmVars, pmVars, runVars, dsVars>>
    \/ DefaultMetricsMonitor_close /\ UNCHANGED <<scVars, mmVars, pmVars, runVars, dsVars>>

SpecDefault == InitDefault /\ [][NextDefault]_vars

\* The monitor after init with any totals within the bounds, then any hooks.
InitPerf ==
    /\ StopCallback_init /\ MetricsMonitor_init /\ DefaultMetricsMonitor_init
    /\ Run_idle /\ GlobalMe_idle
    /\ total_epochs \in TotalEpochs
    /\ num_train_steps \in NumTrainSteps
    /\ num_validation_steps \in NumValidationSteps
    /\ train_steps_passed = 0 /\ val_steps_passed = 0
    /\ train_epochs_passed = 0
    /\ granularity = FDiv(FromInt(1), FromInt(total_epochs))
    /\ start_epoch_time = 0 /\ start_batch_time = 0
    /\ avg_epoch_time = FromInt(0) /\ avg_batch_time = FromInt(0)
    /\ avg_val_batch_time = FromInt(0)
    /\ now = 1 /\ pm_last = "init" /\ pm_epoch_ends = 0

NextPerf ==
    \/ (\E te \in TotalEpochs, nts \in NumTrainSteps,
             nvs \in NumValidationSteps :
            PerformanceMonitor_init(te, nts, nvs))
          /\ UNCHANGED <<scVars, mmVars, dmVars, runVars, dsVars>>
    \/ PerformanceMonitor_on_train_begin /\ UNCHANGED <<scVars, mmVars, dmVars, runVars, dsVars>>
    \/ PerformanceMonitor_on_train_epoch_begin /\ UNCHANGED <<scVars, mmVars, dmVars, runVars, dsVars>>
    \/ PerformanceMonitor_on_train_batch_begin /\ UNCHANGED <<scVars, mmVars, dmVars, runVars, dsVars>>
    \/ train_steps_passed < MaxStepsPassed
          /\ PerformanceMonitor_on_train_batch_end
          /\ UNCHANGED <<scVars, mmVars, dmVars, runVars, dsVars>>
    \/ PerformanceMonitor_on_val_batch_begin /\ UNCHANGED <<scVars, mmVars, dmVars, runVars, dsVars>>
    \/ val_steps_passed < MaxStepsPassed
          /\ PerformanceMonitor_on_val_batch_end
          /\ UNCHANGED <<scVars, mmVars, dmVars, runVars, dsVars>>
    \/ train_epochs_passed < MaxEpochsPassed
          /\ PerformanceMonitor_on_train_epoch_end
          /\ UNCHANGED <<scVars, mmVars, dmVars, runVars, dsVars>>
    \/ PerformanceMonitor_on_train_end /\ UNCHANGED <<scVars, mmVars, dmVars, runVars, dsVars>>

SpecPerf == InitPerf /\ [][NextPerf]_vars

(***************************************************************************)
(* A well-formed training run: init with positive totals, on_train_begin,  *)
(* then for each epoch on_train_epoch_begin, num_train_steps pairs of      *)
(* on_train_batch_begin/on_train_batch_end, and on_train_epoch_end.        *)
(***************************************************************************)

Run_on_train_begin ==
    /\ run_pc = "train_begin"
    /\ PerformanceMonitor_on_train_begin
    /\ run_pc' = "epoch_begin"
    /\ UNCHANGED <<run_epoch, run_batch>>

Run_on_train_epoch_begin ==
    /\ run_pc = "epoch_begin"
    /\ PerformanceMonitor_on_train_epoch_begin
    /\ run_pc' = "batch_begin"
    /\ run_batch' = 0
    /\ UNCHANGED run_epoch

Run_on_train_batch_begin ==
    /\ run_pc = "batch_begin"
    /\ PerformanceMonitor_on_train_batch_begin
    /\ run_pc' = "batch_end"
    /\ UNCHANGED <<run_epoch, run_batch>>

Run_on_train_batch_end ==
    /\ run_pc = "batch_end"
    /\ PerformanceMonitor_on_train_batch_end
    /\ run_batch' = run_batch + 1
    /\ run_pc' = IF run_batch + 1 < num_train_steps
                 THEN "batch_begin" ELSE "epoch_end"
    /\ UNCHANGED run_epoch

Run_on_train_epoch_end ==
    /\ run_pc = "epoch_end"
    /\ PerformanceMonitor_on_train_epoch_end
    /\ run_epoch' = run_epoch + 1
    /\ run_pc' = IF run_epoch + 1 < total_epochs THEN "epoch_begin" ELSE "done"
    /\ UNCHANGED run_batch

InitRun ==
    /\ StopCallback_init /\ MetricsMonitor_init /\ DefaultMetricsMonitor_init
    /\ GlobalMe_idle
    /\ run_pc = "train_begin" /\ run_epoch = 0 /\ run_batch = 0
    /\ total_epochs \in RunTotalEpochs
    /\ num_train_steps \in RunNumTrainSteps
    /\ num_validation_steps \in NumValidationSteps
    /\ train_steps_passed = 0 /\ val_steps_passed = 0
    /\ train_epochs_passed = 0
    /\ granularity = FDiv(FromInt(1), FromInt(total_epochs))
    /\ start_epoch_time = 0 /\ start_batch_time = 0
    /\ avg_epoch_time = FromInt(0) /\ avg_batch_time = FromInt(0)
    /\ avg_val_batch_time = FromInt(0)
    /\ now = 1 /\ pm_last = "init" /\ pm_epoch_ends = 0

NextRun ==
    \/ Run_on_train_begin /\ UNCHANGED <<scVars, mmVars, dmVars, dsVars>>
    \/ Run_on_train_epoch_begin /\ UNCHANGED <<scVars, mmVars, dmVars, dsVars>>
    \/ Run_on_train_batch_begin /\ UNCHANGED <<scVars, mmVars, dmVars, dsVars>>
    \/ Run_on_train_batch_end /\ UNCHANGED <<scVars, mmVars, dmVars, dsVars>>
    \/ Run_on_train_epoch_end /\ UNCHANGED <<scVars, mmVars, dmVars, dsVars>>

SpecRun == InitRun /\ [][NextRun]_vars

(***************************************************************************)
(* The constructor of GlobalMe on two families of file systems: the full   *)
(* nested layout with files drawn from pools of names, and layouts with    *)
(* any of the directories absent.                                          *)
(***************************************************************************)

\* Two spellings of identity 1, a junk image, identity 7 and a file that is
\* no .jpg.
TrainNames ==
    {<<"1", "_", "c", "1", ".", "j", "p", "g">>,
     <<"0", "1", "_", "c", "2", ".", "j", "p", "g">>,
     <<"-", "1", "_", "c", "3", ".", "j", "p", "g">>,
     <<"7", "_", "c", "2", ".", "j", "p", "g">>,
     <<"7", "_", "c", "1", ".", "p", "n", "g">>}
QueryNames ==
    {<<"3", "_", "c", "2", ".", "j", "p", "g">>,
     <<"-", "1", "_", "c", "1", ".", "j", "p", "g">>}
GalleryNames ==
    {<<"3", "_", "c", "1", ".", "j", "p", "g">>}
ImagesNames ==
    {<<"9", "_", "c", "4", ".", "j", "p", "g">>,
     <<"-", "1", "_", "c", "4", ".", "j", "p", "g">>}

\* The listings of at most n different names of a pool.
Listings(names, n) ==
    {l \in UNION {[1..k -> names] : k \in 0..n} :
        \A i, j \in 1..Len(l) : i # j => l[i] # l[j]}

\* What a directory holds when it is the set of directories that varies:
\* nothing, no .jpg file, one image, a .jpg name the pattern does not match,
\* or one it matches with an identity int() rejects.
FewListings ==
    {<<>>, <<<<"7", "_", "c", "1", ".", "p", "n", "g">>>>, <<<<"5", "_", "c", "1", ".", "j", "p", "g">>>>,
     <<<<"x", ".", "j", "p", "g">>>>, <<<<"1", "-", "2", "_", "c", "1", ".", "j", "p", "g">>>>}

NestedDir == Join(dataset_dir, dataset_subdir)

Subdirs == {bounding_box_train, query_name, bounding_box_test, images_name}

FullLayouts ==
    {[d \in {dataset_dir, NestedDir} \cup {Join(NestedDir, n) : n \in Subdirs}
        |-> IF d = Join(NestedDir, bounding_box_train) THEN t
            ELSE IF d = Join(NestedDir, query_name) THEN q
            ELSE IF d = Join(NestedDir, bounding_box_test) THEN g
            ELSE IF d = Join(NestedDir, images_name) THEN x
            ELSE <<>>] :
        t \in Listings(TrainNames, MaxFiles),
        q \in Listings(QueryNames, MaxFiles),
        g \in Listings(GalleryNames, MaxFiles),
        x \in Listings(ImagesNames, MaxFiles)}

\* The directories base, its parents and some of its subdirectories, each
\* subdirectory with one of the few listings.
PartialLayoutsUnder(base, parents) ==
    UNION {
        {[d \in parents \cup {base} \cup {Join(base, n) : n \in present} |->
            IF d \in parents \cup {base} THEN <<>>
            ELSE l[CHOOSE n \in present : d = Join(base, n)]] :
            l \in [present -> FewListings]} :
        present \in SUBSET Subdirs}

PartialLayouts ==
    {[d \in {} |-> <<>>]}
    \cup PartialLayoutsUnder(dataset_dir, {})
    \cup PartialLayoutsUnder(NestedDir, {dataset_dir})

InitData ==
    /\ StopCallback_init /\ MetricsMonitor_init /\ DefaultMetricsMonitor_init
    /\ PerformanceMonitor_idle /\ Run_idle
    /\ fs \in FullLayouts \cup PartialLayouts
    /\ market1501_500k \in BOOLEAN
    /\ ds_pc = "start"
    /\ data_dir = <<>>
    /\ train = <<>> /\ query = <<>> /\ gallery = <<>>
    /\ ds_error = [kind |-> "none", path |-> <<>>]
    /\ ds_scanned = <<>>

NextData ==
    \/ GlobalMe_check /\ UNCHANGED <<scVars, mmVars, dmVars, pmVars, runVars>>
    \/ GlobalMe_train /\ UNCHANGED <<scVars, mmVars, dmVars, pmVars, runVars>>
    \/ GlobalMe_query /\ UNCHANGED <<scVars, mmVars, dmVars, pmVars, runVars>>
    \/ GlobalMe_gallery /\ UNCHANGED <<scVars, mmVars, dmVars, pmVars, runVars>>
    \/ GlobalMe_extra_gallery /\ UNCHANGED <<scVars, mmVars, dmVars, pmVars, runVars>>
    \/ GlobalMe_super_init /\ UNCHANGED <<scVars, mmVars, dmVars, pmVars, runVars>>

SpecData == InitData /\ [][NextData]_vars

(***************************************************************************)
(* Properties of StopCallback                                              *)
(***************************************************************************)

\* The most recent stop or reset of a call history, "none" when there is none.
LastStopReset(calls) ==
    LET idx == {i \in 1..Len(calls) : calls[i] \in {"stop", "reset"}}
    IN  IF idx = {} THEN "none"
        ELSE calls[CHOOSE i \in idx : \A j \in idx : j <= i]

C4_Reports ==
    /\ stop_flag = (LastStopReset(sc_calls) = "stop")
    /\ (sc_calls # <<>> /\ Last(sc_calls) = "check_stop") =>
          /\ sc_ret.status = "returned"
          /\ sc_ret.value = (LastStopReset(sc_calls) = "stop")

C4_Step ==
    LET call == Last(sc_calls') IN
    /\ call = "check_stop" => stop_flag' = stop_flag
    /\ (call = "stop" /\ stop_flag) => stop_flag'
    /\ (call = "reset" /\ ~stop_flag) => ~stop_flag'

\* C4: check_stop() returns true exactly when the most recent call among
\* stop()/reset() was stop() (false when neither was called); check_stop()
\* never changes the flag; stop() in the Stopping state and reset() in the
\* Permissive state leave the flag as it is.
C4_StopCallback == [] C4_Reports /\ [][C4_Step]_vars

\* stop, reset, stop again, and a check_stop that reports Stopping.
C4_Witness ==
    /\ sc_calls = <<"stop", "reset", "stop", "check_stop">>
    /\ sc_ret = [status |-> "returned", value |-> TRUE]

(***************************************************************************)
(* Properties of PerformanceMonitor                                        *)
(***************************************************************************)

\* C1: after init with positive totals and any sequence of hooks,
\* get_training_progress() is an integer between 0 and 100.
C1_TrainingProgressInRange == get_training_progress \in 0..100

\* C2: after init with positive totals and any sequence of hooks,
\* get_val_progress() is an integer between 0 and 100, also when
\* on_val_batch_end was called more than num_validation_steps times.
C2_ValProgressInRange == get_val_progress \in 0..100

C9_State == train_epochs_passed = pm_epoch_ends

C9_Step ==
    LET hook == pm_last' IN
    /\ train_epochs_passed' # train_epochs_passed =>
          hook \in {"init", "on_train_epoch_end"}
    /\ hook = "init" => train_epochs_passed' = 0
    /\ hook = "on_train_epoch_end" =>
          /\ train_epochs_passed' = train_epochs_passed + 1
          /\ val_steps_passed' = 0
          /\ train_steps_passed' = train_steps_passed
    /\ hook = "on_train_begin" =>
          /\ train_steps_passed' = 0
          /\ val_steps_passed' = 0
          /\ UNCHANGED <<train_epochs_passed, total_epochs, num_train_steps,
                         num_validation_steps, avg_epoch_time,
                         avg_batch_time, avg_val_batch_time>>

\* C9: epochs-passed is changed only by init (to 0) and on_train_epoch_end
\* (by exactly 1), so it equals the number of on_train_epoch_end calls since
\* the last init; on_train_begin zeroes the train and validation step
\* counters and leaves epochs-passed, the totals and the three running
\* averages alone; on_train_epoch_end zeroes the validation step counter
\* and leaves the train step counter alone.
C9_Counters == [] C9_State /\ [][C9_Step]_vars

\* on_train_begin called with epochs passed and all three averages non-zero.
C9_Witness ==
    /\ pm_last = "on_train_begin"
    /\ train_epochs_passed = 2
    /\ train_steps_passed = 0 /\ val_steps_passed = 0
    /\ avg_epoch_time.n # 0 /\ avg_batch_time.n # 0
    /\ avg_val_batch_time.n # 0

\* C10: in a well-formed training run get_training_progress() never
\* decreases from one hook call to the next, and it is 100 after the last
\* on_train_epoch_end.
C10_ProgressMonotone ==
    /\ [][get_training_progress' >= get_training_progress]_vars
    /\ [](run_pc = "done" => get_training_progress = 100)

(***************************************************************************)
(* Properties of GlobalMe                                                  *)
(***************************************************************************)

Range(seq) == {seq[i] : i \in 1..Len(seq)}

\* How often a path occurs in a split.
Occurrences(split, path) ==
    Cardinality({i \in 1..Len(split) : split[i].path = path})

JunkFree(split) ==
    \A i \in 1..Len(split) : ParsePath(split[i].path).pid # -1

\* Every .jpg file of the directory with an identity other than -1 is in the
\* split exactly once.
HoldsOnce(split, dir_path) ==
    \A path \in Range(Glob(dir_path)) :
        ParsePath(path).pid # -1 => Occurrences(split, path) = 1

\* C5: no sample whose parsed identity is -1 is in any of the three splits,
\* whether its directory was processed with or without relabelling, and
\* every file with another identity is exactly once in the split of its
\* directory (the gallery for the extra gallery directory, when requested).
C5_JunkDropped ==
    ds_pc = "done" =>
        /\ JunkFree(train) /\ JunkFree(query) /\ JunkFree(gallery)
        /\ HoldsOnce(train, train_dir)
        /\ HoldsOnce(query, query_dir)
        /\ HoldsOnce(gallery, gallery_dir)
        /\ market1501_500k => HoldsOnce(gallery, extra_gallery_dir)

HasJunk(dir_path) ==
    \E path \in Range(Glob(dir_path)) : ParsePath(path).pid = -1

\* A dataset built with the extra gallery, junk images in the train, query
\* and extra gallery directories, and samples kept from each directory.
C5_Witness ==
    /\ ds_pc = "done"
    /\ market1501_500k
    /\ HasJunk(train_dir) /\ HasJunk(query_dir) /\ HasJunk(extra_gallery_dir)
    /\ Len(train) = 1 /\ Len(query) = 1 /\ Len(gallery) = 2

\* The identities other than -1 among the .jpg files of a directory.
RawIdentities(dir_path) ==
    {ParsePath(path).pid : path \in Range(Glob(dir_path))} \ {-1}

\* C6: in a directory processed with relabel=true (the train directory) the
\* labels of the output are exactly 0..k-1, k the number of different
\* identities other than -1; two samples have the same label exactly when
\* their files have the same identity; the camera ids are those parsed.
C6_DenseLabels ==
    ds_pc \in {"query", "gallery", "extra_gallery", "super", "done"} =>
        /\ {train[i].pid : i \in 1..Len(train)}
              = 0..(Cardinality(RawIdentities(train_dir)) - 1)
        /\ \A i, j \in 1..Len(train) :
              (train[i].pid = train[j].pid)
                 <=> (ParsePath(train[i].path).pid = ParsePath(train[j].path).pid)
        /\ \A i \in 1..Len(train) :
              train[i].camid = ParsePath(train[i].path).camid

\* Identity 7 listed before identity 1 and numbered 0, identity 1 numbered 1.
C6_Witness ==
    /\ ds_pc = "done"
    /\ Len(train) = 2
    /\ ParsePath(train[1].path).pid = 7 /\ train[1].pid = 0
    /\ ParsePath(train[2].path).pid = 1 /\ train[2].pid = 1
    /\ train[1].camid = 2 /\ train[2].camid = 1

Exists(path) == path \in DOMAIN fs

\* The first absent directory in the order data directory, train, query,
\* gallery and, with the flag, images; <<>> when none is absent.
FirstAbsent ==
    LET dd == IF Exists(NestedDir) THEN NestedDir ELSE dataset_dir IN
    IF ~Exists(dd) THEN dd
    ELSE IF ~Exists(Join(dd, bounding_box_train))
    THEN Join(dd, bounding_box_train)
    ELSE IF ~Exists(Join(dd, query_name)) THEN Join(dd, query_name)
    ELSE IF ~Exists(Join(dd, bounding_box_test))
    THEN Join(dd, bounding_box_test)
    ELSE IF market1501_500k /\ ~Exists(Join(dd, images_name))
    THEN Join(dd, images_name)
    ELSE <<>>

\* A scanned directory holds a .jpg file whose name does not parse.
Malformed ==
    \E dir_path \in Range(ds_scanned) :
        \E path \in Range(Glob(dir_path)) : ParsePath(path).raised # "none"

\* C8: the constructor fails with a missing-path error naming the first
\* absent directory (data directory, bounding_box_train, query,
\* bounding_box_test, and images only with the flag), before any directory
\* is scanned and with no split produced; an absent images directory is no
\* error without the flag; with every required directory there, a directory
\* without matching .jpg files gives an empty split and no error.
C8_MissingPath ==
    ds_pc # "start" =>
        /\ FirstAbsent # <<>> =>
              /\ ds_pc = "error"
              /\ ds_error = [kind |-> "missing path", path |-> FirstAbsent]
              /\ ds_scanned = <<>>
              /\ train = <<>> /\ query = <<>> /\ gallery = <<>>
        /\ FirstAbsent = <<>> =>
              /\ ds_error.kind # "missing path"
              /\ ds_pc = "error" => Malformed
              /\ ds_pc = "done" =>
                    /\ Glob(train_dir) = <<>> => train = <<>>
                    /\ Glob(query_dir) = <<>> => query = <<>>
                    /\ (/\ Glob(gallery_dir) = <<>>
                        /\ market1501_500k => Glob(extra_gallery_dir) = <<>>)
                          => gallery = <<>>

\* Built without the flag and without an images directory; the query
\* directory holds a file but no .jpg, and the query split is empty.
C8_Witness ==
    /\ ds_pc = "done"
    /\ ~market1501_500k
    /\ ~Exists(extra_gallery_dir)
    /\ fs[query_dir] # <<>> /\ Glob(query_dir) = <<>> /\ query = <<>>
    /\ train # <<>>

(***************************************************************************)
(* Properties of MetricsMonitor                                            *)
(***************************************************************************)

\* An add_scalar was called after the last close (or after construction).
AddSinceClose(calls) ==
    \E i \in 1..Len(calls) :
        /\ calls[i].op = "add_scalar"
        /\ \A j \in (i+1)..Len(calls) : calls[j].op # "close"

C3_State ==
    /\ (tb # 0) <=> AddSinceClose(mm_calls)
    /\ tb \in 0..Len(writers)
    /\ \A i \in 1..Len(writers) :
          /\ writers[i].open <=> (i = tb)
          /\ writers[i].closes = IF writers[i].open THEN 0 ELSE 1

C3_Step ==
    LET call == Last(mm_calls') IN
    /\ call.op = "add_scalar" =>
          /\ tb = 0 => /\ Len(writers') = Len(writers) + 1
                       /\ tb' = Len(writers')
                       /\ writers'[tb'].log = <<call.args>>
          /\ tb # 0 => /\ Len(writers') = Len(writers)
                       /\ tb' = tb
                       /\ writers'[tb'].log = Append(writers[tb].log, call.args)
          /\ writers'[tb'].open
          /\ \A i \in 1..Len(writers) : i # tb' => writers'[i] = writers[i]
    /\ call.op = "close" =>
          /\ tb' = 0
          /\ tb = 0 => writers' = writers
          /\ tb # 0 =>
                /\ Len(writers') = Len(writers)
                /\ writers[tb].open /\ ~writers'[tb].open
                /\ writers'[tb].closes = writers[tb].closes + 1
                /\ writers'[tb].log = writers[tb].log
                /\ \A i \in 1..Len(writers) : i # tb => writers'[i] = writers[i]

\* C3: a writer is open exactly when add_scalar was called since the last
\* close (or since construction); the first add_scalar after construction
\* or after a close opens a new writer; every add_scalar reaches the open
\* writer with its (name, value, step) unchanged and no closed writer gets
\* anything; close closes the open writer once and returns the monitor to
\* the not-yet-opened state; close without an open writer does nothing.
C3_MetricsMonitor == [] C3_State /\ [][C3_Step]_vars

\* add_scalar, close, add_scalar: a second writer is open, the first closed.
C3_Witness ==
    /\ Len(writers) = 2
    /\ tb = 2
    /\ ~writers[1].open /\ writers[1].closes = 1
    /\ writers[1].log = <<<<"loss", 1, 0>>>>
    /\ writers[2].open /\ writers[2].log = <<<<"acc", 2, 1>>>>

(***************************************************************************)
(* Properties of DefaultMetricsMonitor                                     *)
(***************************************************************************)

\* The values given to add_scalar under the name n, in call order.
RECURSIVE RecordedValues(_, _)
RecordedValues(calls, n) ==
    IF calls = <<>> THEN <<>>
    ELSE LET c == calls[1]
             rest == RecordedValues(Tail(calls), n)
         IN  IF c.op = "add_scalar" /\ c.args[1] = n
             THEN <<c.args[2]>> \o rest
             ELSE rest

C7_State ==
    /\ DOMAIN metrics_dict = {n \in Captures : RecordedValues(dm_calls, n) # <<>>}
    /\ \A n \in DOMAIN metrics_dict :
          metrics_dict[n] = RecordedValues(dm_calls, n)
    /\ (dm_calls # <<>> /\ Last(dm_calls).op = "get_metric_values") =>
          LET n == Last(dm_calls).args[1] IN
          dm_ret = IF RecordedValues(dm_calls, n) # <<>>
                   THEN [status |-> "returned",
                         value |-> RecordedValues(dm_calls, n)]
                   ELSE [status |-> "KeyError", value |-> <<>>]

C7_Step ==
    Last(dm_calls').op \in {"get_metric_values", "close"} =>
        metrics_dict' = metrics_dict

=============================================================================
